---- MODULE Spec2Model ----
(***************************************************************************)
(* Model of src/utils/image_utils.py: the headless-browser screenshot      *)
(* renderer (take_screenshot, take_screenshot_html) as a state machine     *)
(* over the temporary files it creates, and the pure helpers               *)
(* (resize_image, change_orientation, get_image) as operators.             *)
(***************************************************************************)
EXTENDS Integers, Sequences, FiniteSets, TLC

\* ------------------------------------------------------------------ bounds

\* Number of distinct temporary-file names the OS can hand out.
MaxTempNames == 2

\* Largest image / target side length explored for resize_image.  Up to 8 the
\* float arithmetic of the source agrees with exact integer arithmetic.
MaxDim == 6

\* Largest number of candidate executables present on PATH at once.
MaxOnPath == 3

\* Same, when two calls run concurrently.
MaxOnPathConc == 1

\* ------------------------------------------------------- program constants

_CHROMIUM_EXECUTABLES ==
    << "chromium-browser", "chromium", "google-chrome",
       "google-chrome-stable", "chromium-headless-shell" >>

\* Exit status of a process killed by SIGILL (128 + 4).
SIGILL_EXIT == 132

NumExe == Len(_CHROMIUM_EXECUTABLES)

Calls == {1, 2}

TempNames == 1 .. MaxTempNames

\* timeout_ms arguments: 0 stands for both None and 0 (both falsy); the
\* other is a whole number of seconds, so that timeout_ms / 1000.0 is exact.
TimeoutInputs == {0, 2000}

\* Exit codes a browser process ends with: success, illegal instruction, other.
ExitCodes == {0, 1, SIGILL_EXIT}

\* What a browser process that ran did to the --screenshot path.
BrowserEffects == {"keep", "write", "delete"}

VARIABLES
    files,            \* temp name -> "none" | "html" | "blank" | "png"
    owner,            \* temp name -> call that created the existing file, 0 if none
    onPath,           \* executable index -> shutil.which finds it
    pc,               \* call -> position in the code
    kind,             \* call -> "html" (take_screenshot_html) | "path" (take_screenshot)
    timeout_ms,       \* call -> argument
    html_file_path,   \* call -> name bound at line 145, 0 while unbound
    htmlCreated,      \* call -> name of the .html file line 143 created, 0 if none
    img_file_path,    \* call -> name bound at line 163, 0 while None
    normalized,       \* call -> what _normalize_target returned
    idx,              \* call -> position of the for loop in _CHROMIUM_EXECUTABLES
    errors,           \* call -> the list `errors`
    screenshot_taken, \* call -> the flag
    image,            \* call -> "none" | "bitmap"
    attempts,         \* call -> history of subprocess.run calls and outcomes
    summary,          \* call -> which final failure log was written
    tsExit,           \* call -> how take_screenshot ended: "" | "returned" | "raised"
    result,           \* call -> what the outermost call gave its caller
    foreign,          \* some call touched a file owned by the other call
    last              \* last call of a pure helper: [fn, args, out]

vars == << files, owner, onPath, pc, kind, timeout_ms, html_file_path,
           htmlCreated, img_file_path, normalized, idx, errors,
           screenshot_taken, image, attempts, summary, tsExit, result,
           foreign, last >>

callVars == << kind, timeout_ms >>

\* ----------------------------------------------------------------- helpers

\* _normalize_target (lines 32-37).
_normalize_target(hasScheme, exists) ==
    IF hasScheme THEN "unchanged"
    ELSE IF exists THEN "file_uri"
    ELSE "unchanged"

\* timeout_seconds = (timeout_ms / 1000.0) if timeout_ms else None; 0 is None.
timeout_seconds(ms) == IF ms # 0 THEN ms \div 1000 ELSE 0

\* os.path.exists on a temp name.
Exists(n) == n # 0 /\ files[n] # "none"

\* Whether call c touching file n touches a file the other call owns.
Foreign(c, n) == n # 0 /\ owner[n] # 0 /\ owner[n] # c

\* The file system after the browser of call c acted on path n.
BrowserFiles(n, eff) ==
    CASE eff = "write"  -> [files EXCEPT ![n] = "png"]
      [] eff = "delete" -> [files EXCEPT ![n] = "none"]
      [] OTHER          -> files

BrowserOwner(c, n, eff) ==
    CASE eff = "write"  -> IF owner[n] = 0 THEN [owner EXCEPT ![n] = c] ELSE owner
      [] eff = "delete" -> [owner EXCEPT ![n] = 0]
      [] OTHER          -> owner

BrowserForeign(c, n, eff) == eff # "keep" /\ Foreign(c, n)

\* ------------------------------------------------- how take_screenshot ends

\* take_screenshot returns `image` (line 224 or 212): to the caller of a path
\* call, or into line 147 of take_screenshot_html.
TsReturn(c) ==
    /\ tsExit' = [tsExit EXCEPT ![c] = "returned"]
    /\ IF kind[c] = "path"
       THEN /\ pc' = [pc EXCEPT ![c] = "done"]
            /\ result' = [result EXCEPT ![c] = image'[c]]
       ELSE /\ pc' = [pc EXCEPT ![c] = "html_remove"]
            /\ result' = result

\* An exception leaves take_screenshot (only the finally block can raise):
\* a path call's caller sees it; take_screenshot_html catches it at line 152
\* with its own image still None, and never reaches line 150.
TsRaise(c) ==
    /\ tsExit' = [tsExit EXCEPT ![c] = "raised"]
    /\ pc' = [pc EXCEPT ![c] = "done"]
    /\ result' = [result EXCEPT ![c] = IF kind[c] = "path" THEN "raised" ELSE "none"]

\* --------------------------------------------------------------- actions

\* take_screenshot_html, lines 140-145 (and 152-155 when they raise).
CreateHtml(c) ==
    /\ pc[c] = "html_create"
    /\ \/ \* NamedTemporaryFile raises: nothing was created
          /\ pc' = [pc EXCEPT ![c] = "done"]
          /\ result' = [result EXCEPT ![c] = "none"]
          /\ UNCHANGED << files, owner, html_file_path, htmlCreated >>
       \/ \E n \in TempNames, written \in BOOLEAN :
             /\ files[n] = "none"
             /\ owner' = [owner EXCEPT ![n] = c]
             /\ htmlCreated' = [htmlCreated EXCEPT ![c] = n]
             /\ IF written
                THEN /\ files' = [files EXCEPT ![n] = "html"]
                     /\ html_file_path' = [html_file_path EXCEPT ![c] = n]
                     /\ pc' = [pc EXCEPT ![c] = "ts_create"]
                     /\ result' = result
                ELSE \* html_str.encode or write raises inside the with block
                     /\ files' = [files EXCEPT ![n] = "blank"]
                     /\ html_file_path' = html_file_path
                     /\ pc' = [pc EXCEPT ![c] = "done"]
                     /\ result' = [result EXCEPT ![c] = "none"]
    /\ UNCHANGED << onPath, callVars, img_file_path, normalized, idx, errors,
                    screenshot_taken, image, attempts, summary, tsExit,
                    foreign, last >>

\* take_screenshot, lines 158-169.
CreatePng(c) ==
    /\ pc[c] = "ts_create"
    /\ \/ \* NamedTemporaryFile raises: except at 218, finally skips (path is None)
          /\ image' = image
          /\ TsReturn(c)
          /\ UNCHANGED << files, owner, img_file_path, normalized >>
       \/ \E n \in TempNames, hasScheme \in BOOLEAN, exists \in BOOLEAN :
             /\ files[n] = "none"
             /\ kind[c] = "html" => (~hasScheme /\ exists = Exists(html_file_path[c]))
             /\ files' = [files EXCEPT ![n] = "blank"]
             /\ owner' = [owner EXCEPT ![n] = c]
             /\ img_file_path' = [img_file_path EXCEPT ![c] = n]
             /\ normalized' = [normalized EXCEPT ![c] = _normalize_target(hasScheme, exists)]
             /\ pc' = [pc EXCEPT ![c] = "ts_loop"]
             /\ UNCHANGED << image, tsExit, result >>
    /\ UNCHANGED << onPath, callVars, html_file_path, htmlCreated, idx, errors,
                    screenshot_taken, attempts, summary, foreign, last >>

\* Variant: an illegal-instruction exit ends the loop (break for continue).
NextIndexStopsOnSigill(i, outcome) ==
    IF outcome = "sigill" THEN NumExe + 1 ELSE i + 1

\* `continue` (lines 172, 185, 190, 198) and the end of the loop body
\* (line 203): the for loop moves to the next candidate whatever happened.
NextIndex(i, outcome) == i + 1

InLoop(c) ==
    /\ pc[c] = "ts_loop"
    /\ ~screenshot_taken[c]
    /\ idx[c] <= NumExe

Attempt(c, outcome) == [exe |-> idx[c], outcome |-> outcome]

ErrorEntry(c, what, detail) ==
    [exe |-> _CHROMIUM_EXECUTABLES[idx[c]], what |-> what, detail |-> detail]

\* Lines 171-172: the candidate is not on PATH.
SkipNotOnPath(c) ==
    /\ InLoop(c)
    /\ ~onPath[idx[c]]
    /\ idx' = [idx EXCEPT ![c] = NextIndex(@, "not_on_path")]
    /\ UNCHANGED << files, owner, onPath, pc, callVars, html_file_path,
                    htmlCreated, img_file_path, normalized, errors,
                    screenshot_taken, image, attempts, summary, tsExit,
                    result, foreign, last >>

\* Lines 174-185: subprocess.run raises TimeoutExpired.
RunTimeout(c) ==
    /\ InLoop(c)
    /\ onPath[idx[c]]
    /\ timeout_seconds(timeout_ms[c]) # 0
    /\ \E eff \in BrowserEffects :
          /\ files' = BrowserFiles(img_file_path[c], eff)
          /\ owner' = BrowserOwner(c, img_file_path[c], eff)
          /\ foreign' = (foreign \/ BrowserForeign(c, img_file_path[c], eff))
    /\ errors' = [errors EXCEPT ![c] =
                     Append(@, ErrorEntry(c, "timed out", timeout_seconds(timeout_ms[c])))]
    /\ attempts' = [attempts EXCEPT ![c] = Append(@, Attempt(c, "timeout"))]
    /\ idx' = [idx EXCEPT ![c] = NextIndex(@, "timeout")]
    /\ UNCHANGED << onPath, pc, callVars, html_file_path, htmlCreated,
                    img_file_path, normalized, screenshot_taken, image,
                    summary, tsExit, result, last >>

\* Lines 174-180, 186-190: subprocess.run raises anything else (the process
\* never ran).
RunLaunchError(c) ==
    /\ InLoop(c)
    /\ onPath[idx[c]]
    /\ errors' = [errors EXCEPT ![c] = Append(@, ErrorEntry(c, "failed", 0))]
    /\ attempts' = [attempts EXCEPT ![c] = Append(@, Attempt(c, "launch_error"))]
    /\ idx' = [idx EXCEPT ![c] = NextIndex(@, "launch_error")]
    /\ UNCHANGED << files, owner, onPath, pc, callVars, html_file_path,
                    htmlCreated, img_file_path, normalized, screenshot_taken,
                    image, summary, tsExit, result, foreign, last >>

\* What lines 192-203 do with a completed process.
ExitOutcome(rc, fileExists) ==
    IF rc = 0 /\ fileExists THEN "success"
    ELSE IF rc = SIGILL_EXIT THEN "sigill"
    ELSE IF rc = 0 THEN "exit0_nofile"
    ELSE "nonzero"

\* Variant: the SIGILL test of lines 197-198 is missing, so exit 132 is
\* recorded like any other nonzero exit.
RecordsExitWithSigill(outcome) == outcome \in {"exit0_nofile", "nonzero", "sigill"}

\* Whether lines 200-203 record an error for that outcome.
RecordsExit(outcome) == outcome \in {"exit0_nofile", "nonzero"}

\* Lines 174-180, 192-203: the process ran to completion with code rc.
RunExit(c) ==
    /\ InLoop(c)
    /\ onPath[idx[c]]
    /\ \E rc \in ExitCodes, eff \in BrowserEffects :
          LET p   == img_file_path[c]
              fs  == BrowserFiles(p, eff)
              out == ExitOutcome(rc, fs[p] # "none")
          IN  /\ files' = fs
              /\ owner' = BrowserOwner(c, p, eff)
              /\ foreign' = (foreign \/ BrowserForeign(c, p, eff)
                                     \/ (rc = 0 /\ fs[p] # "none" /\ Foreign(c, p)))
              /\ attempts' = [attempts EXCEPT ![c] = Append(@, Attempt(c, out))]
              /\ IF out = "success"
                 THEN /\ screenshot_taken' = [screenshot_taken EXCEPT ![c] = TRUE]
                      /\ UNCHANGED << idx, errors >>
                 ELSE /\ idx' = [idx EXCEPT ![c] = NextIndex(@, out)]
                      /\ errors' = [errors EXCEPT ![c] =
                            IF RecordsExit(out)
                            THEN Append(@, ErrorEntry(c, "exited", rc))
                            ELSE @]
                      /\ UNCHANGED screenshot_taken
    /\ UNCHANGED << onPath, pc, callVars, html_file_path, htmlCreated,
                    img_file_path, normalized, image, summary, tsExit,
                    result, last >>

\* Which message lines 205-211 log.
FailureSummary(errs) == IF errs = << >> THEN "no_executable_found" ELSE "error_list"

\* Lines 205-212: the loop ended without a screenshot.
LogFailure(c) ==
    /\ pc[c] = "ts_loop"
    /\ ~screenshot_taken[c]
    /\ idx[c] > NumExe
    /\ summary' = [summary EXCEPT ![c] = FailureSummary(errors[c])]
    /\ pc' = [pc EXCEPT ![c] = "ts_finally"]
    /\ UNCHANGED << files, owner, onPath, callVars, html_file_path,
                    htmlCreated, img_file_path, normalized, idx, errors,
                    screenshot_taken, image, attempts, tsExit, result,
                    foreign, last >>

\* Lines 214-219: Image.open on the output file; a file that is missing or
\* holds no image raises, which line 218 catches.
Decode(c) ==
    /\ pc[c] = "ts_loop"
    /\ screenshot_taken[c]
    /\ image' = [image EXCEPT ![c] =
                    IF files[img_file_path[c]] = "png" THEN "bitmap" ELSE "none"]
    /\ foreign' = (foreign \/ (Exists(img_file_path[c]) /\ Foreign(c, img_file_path[c])))
    /\ pc' = [pc EXCEPT ![c] = "ts_finally"]
    /\ UNCHANGED << files, owner, onPath, callVars, html_file_path,
                    htmlCreated, img_file_path, normalized, idx, errors,
                    screenshot_taken, attempts, summary, tsExit, result, last >>

\* Variant: no finally block, the output file is left behind.
CleanupLeavesFile(c) ==
    /\ pc[c] = "ts_finally"
    /\ image' = image
    /\ TsReturn(c)
    /\ UNCHANGED << files, owner, foreign, onPath, callVars, html_file_path,
                    htmlCreated, img_file_path, normalized, idx, errors,
                    screenshot_taken, attempts, summary, last >>

\* Lines 220-224: the finally block; os.remove either removes the file or
\* raises, and nothing catches what it raises.
Cleanup(c) ==
    /\ pc[c] = "ts_finally"
    /\ image' = image
    /\ IF Exists(img_file_path[c])
       THEN \/ /\ files' = [files EXCEPT ![img_file_path[c]] = "none"]
               /\ owner' = [owner EXCEPT ![img_file_path[c]] = 0]
               /\ foreign' = (foreign \/ Foreign(c, img_file_path[c]))
               /\ TsReturn(c)
            \/ /\ UNCHANGED << files, owner, foreign >>
               /\ TsRaise(c)
       ELSE /\ UNCHANGED << files, owner, foreign >>
            /\ TsReturn(c)
    /\ UNCHANGED << onPath, callVars, html_file_path, htmlCreated,
                    img_file_path, normalized, idx, errors, screenshot_taken,
                    attempts, summary, last >>

\* take_screenshot_html, lines 147-155: os.remove(html_file_path) removes the
\* file or raises (also when the file is gone); line 152 catches that, and
\* the image already bound at line 147 is returned.
RemoveHtml(c) ==
    /\ pc[c] = "html_remove"
    /\ \/ /\ Exists(html_file_path[c])
          /\ files' = [files EXCEPT ![html_file_path[c]] = "none"]
          /\ owner' = [owner EXCEPT ![html_file_path[c]] = 0]
          /\ foreign' = (foreign \/ Foreign(c, html_file_path[c]))
       \/ UNCHANGED << files, owner, foreign >>
    /\ pc' = [pc EXCEPT ![c] = "done"]
    /\ result' = [result EXCEPT ![c] = image[c]]
    /\ UNCHANGED << onPath, callVars, html_file_path, htmlCreated,
                    img_file_path, normalized, idx, errors, screenshot_taken,
                    image, attempts, summary, tsExit, last >>

\* ------------------------------------------------------ the specification

Entry(k) == IF k = "html" THEN "html_create" ELSE "ts_create"

PathSets(max) ==
    { f \in [1 .. NumExe -> BOOLEAN] :
        Cardinality({ i \in 1 .. NumExe : f[i] }) <= max }

InitCalls(active, max) ==
    /\ files = [n \in TempNames |-> "none"]
    /\ owner = [n \in TempNames |-> 0]
    /\ onPath \in PathSets(max)
    /\ kind \in [Calls -> {"html", "path"}]
    /\ \A c \in Calls \ active : kind[c] = "path"
    /\ pc = [c \in Calls |-> IF c \in active THEN Entry(kind[c]) ELSE "idle"]
    /\ timeout_ms \in [Calls -> TimeoutInputs]
    /\ \A c \in Calls \ active : timeout_ms[c] = 0
    /\ html_file_path = [c \in Calls |-> 0]
    /\ htmlCreated = [c \in Calls |-> 0]
    /\ img_file_path = [c \in Calls |-> 0]
    /\ normalized = [c \in Calls |-> ""]
    /\ idx = [c \in Calls |-> 1]
    /\ errors = [c \in Calls |-> << >>]
    /\ screenshot_taken = [c \in Calls |-> FALSE]
    /\ image = [c \in Calls |-> "none"]
    /\ attempts = [c \in Calls |-> << >>]
    /\ summary = [c \in Calls |-> ""]
    /\ tsExit = [c \in Calls |-> ""]
    /\ result = [c \in Calls |-> ""]
    /\ foreign = FALSE
    /\ last = [fn |-> "", args |-> << >>, out |-> [raised |-> FALSE]]

\* One call of take_screenshot or take_screenshot_html.
Init == InitCalls({1}, MaxOnPath)

\* Two calls running concurrently.
InitConc == InitCalls(Calls, MaxOnPathConc)

Next ==
    \E c \in Calls :
        \/ CreateHtml(c)
        \/ CreatePng(c)
        \/ SkipNotOnPath(c)
        \/ RunTimeout(c)
        \/ RunLaunchError(c)
        \/ RunExit(c)
        \/ LogFailure(c)
        \/ Decode(c)
        \/ Cleanup(c)
        \/ RemoveHtml(c)

Spec == Init /\ [][Next]_vars

SpecConc == InitConc /\ [][Next]_vars

\* ------------------------------------------------------- the pure helpers

\* Variant: keep-width guards only the width-cropping branch, the taller
\* branch always centres.
resize_image_width_branch_only(img_width, img_height, desired_width, desired_height, keep_width) ==
    LET wider      == img_width * desired_height > desired_width * img_height
        new_width  == IF wider
                      THEN (img_height * desired_width) \div desired_height
                      ELSE img_width
        new_height == IF wider
                      THEN img_height
                      ELSE (img_width * desired_height) \div desired_width
    IN  [ raised     |-> FALSE,
          wider      |-> wider,
          x_offset   |-> IF wider /\ ~keep_width
                         THEN (img_width - new_width) \div 2 ELSE 0,
          y_offset   |-> IF ~wider THEN (img_height - new_height) \div 2 ELSE 0,
          new_width  |-> new_width,
          new_height |-> new_height,
          size       |-> << desired_width, desired_height >> ]

\* resize_image, lines 84-113: the crop box.  img_ratio > desired_ratio is
\* compared cross-multiplied and int() of the float products is the exact
\* floor; both agree with the float arithmetic for sides up to 8.
resize_image(img_width, img_height, desired_width, desired_height, keep_width) ==
    LET wider      == img_width * desired_height > desired_width * img_height
        new_width  == IF wider
                      THEN (img_height * desired_width) \div desired_height
                      ELSE img_width
        new_height == IF wider
                      THEN img_height
                      ELSE (img_width * desired_height) \div desired_width
        x_offset   == IF wider /\ ~keep_width
                      THEN (img_width - new_width) \div 2
                      ELSE 0
        y_offset   == IF ~wider /\ ~keep_width
                      THEN (img_height - new_height) \div 2
                      ELSE 0
    IN  [ raised     |-> FALSE,
          wider      |-> wider,
          x_offset   |-> x_offset,
          y_offset   |-> y_offset,
          new_width  |-> new_width,
          new_height |-> new_height,
          size       |-> << desired_width, desired_height >> ]

\* Variant: angle starts at 0, so an unknown orientation rotates by 0 or 180.
change_orientation_default_angle(orientation, inverted) ==
    LET base  == IF orientation = "vertical" THEN 90 ELSE 0
        angle == IF inverted THEN (base + 180) % 360 ELSE base
    IN  [raised |-> FALSE, angle |-> angle]

\* change_orientation, lines 73-82: `angle` is bound only for the two known
\* strings; reading it unbound (line 80 or 82) raises UnboundLocalError.
change_orientation(orientation, inverted) ==
    LET bound == orientation \in {"horizontal", "vertical"}
        base  == IF orientation = "horizontal" THEN 0 ELSE 90
        angle == IF inverted THEN (base + 180) % 360 ELSE base
    IN  IF bound
        THEN [raised |-> FALSE, angle |-> angle]
        ELSE [raised |-> TRUE, angle |-> -1]

\* Variant: only 2xx counts as success, 304 is logged as an error.
get_image_2xx_only(network_ok, status_code, body_is_image) ==
    IF ~network_ok
    THEN [raised |-> TRUE, decode_attempted |-> FALSE, logged_error |-> FALSE,
          img |-> "none"]
    ELSE IF 200 <= status_code /\ status_code < 300
    THEN [raised |-> ~body_is_image, decode_attempted |-> TRUE,
          logged_error |-> FALSE,
          img |-> IF body_is_image THEN "bitmap" ELSE "none"]
    ELSE [raised |-> FALSE, decode_attempted |-> FALSE, logged_error |-> TRUE,
          img |-> "none"]

\* get_image, lines 64-71.  requests.get raising propagates; so does
\* Image.open on a body that is no image.
get_image(network_ok, status_code, body_is_image) ==
    IF ~network_ok
    THEN [raised |-> TRUE, decode_attempted |-> FALSE, logged_error |-> FALSE,
          img |-> "none"]
    ELSE IF (200 <= status_code /\ status_code < 300) \/ status_code = 304
    THEN [raised |-> ~body_is_image, decode_attempted |-> TRUE,
          logged_error |-> FALSE,
          img |-> IF body_is_image THEN "bitmap" ELSE "none"]
    ELSE [raised |-> FALSE, decode_attempted |-> FALSE, logged_error |-> TRUE,
          img |-> "none"]

Dims == 1 .. MaxDim

Orientations == {"horizontal", "vertical", "portrait", "landscape", ""}

Statuses == {100, 199, 200, 204, 299, 300, 301, 303, 304, 305, 404, 500}

screenshotVars ==
    << files, owner, onPath, pc, kind, timeout_ms, html_file_path,
       htmlCreated, img_file_path, normalized, idx, errors,
       screenshot_taken, image, attempts, summary, tsExit, result, foreign >>

CallResizeImage ==
    /\ last.fn = ""
    /\ \E w \in Dims, h \in Dims, dw \in Dims, dh \in Dims, kw \in BOOLEAN :
          last' = [fn   |-> "resize_image",
                   args |-> << w, h, dw, dh, kw >>,
                   out  |-> resize_image(w, h, dw, dh, kw)]
    /\ UNCHANGED screenshotVars

CallChangeOrientation ==
    /\ last.fn = ""
    /\ \E o \in Orientations, inv \in BOOLEAN :
          last' = [fn   |-> "change_orientation",
                   args |-> << o, inv >>,
                   out  |-> change_orientation(o, inv)]
    /\ UNCHANGED screenshotVars

CallGetImage ==
    /\ last.fn = ""
    /\ \E ok \in BOOLEAN, st \in Statuses, valid \in BOOLEAN :
          last' = [fn   |-> "get_image",
                   args |-> << ok, st, valid >>,
                   out  |-> get_image(ok, st, valid)]
    /\ UNCHANGED screenshotVars

\* No screenshot call is running; the helpers keep no state between calls,
\* so a behaviour is one call of one helper on inputs drawn from the bounds.
InitPure == InitCalls({}, 0)

NextPure ==
    \/ CallResizeImage
    \/ CallChangeOrientation
    \/ CallGetImage

SpecPure == InitPure /\ [][NextPure]_vars

\* ------------------------------------------------------------- properties

Ended(c) == pc[c] = "done"

\* C1: take_screenshot and take_screenshot_html never raise to their caller:
\* every call that has ended gave its caller a bitmap or None.
C1_NeverRaises ==
    \A c \in Calls : Ended(c) => result[c] \in {"bitmap", "none"}

C3_HtmlFileGoneOnReturn ==
    \A c \in Calls :
        (Ended(c) /\ htmlCreated[c] # 0) => files[htmlCreated[c]] = "none"

\* C4: when take_screenshot ends without a successful render it logs "no
\* executable found" if and only if zero candidates were attempted, and the
\* accumulated error list otherwise.
C4_NoExecutableIffNoneAttempted ==
    \A c \in Calls :
        summary[c] # "" =>
            /\ (summary[c] = "no_executable_found") <=> (attempts[c] = << >>)
            /\ (summary[c] = "error_list") <=> (attempts[c] # << >>)

\* C5 as stated: with keep-width set, x_offset is 0 when the source is wider
\* than the target ratio, and when it is taller the crop is still centred
\* vertically, y_offset = (img_height - new_height) // 2.
C5_KeepWidthStillCentersVertically ==
    (last.fn = "resize_image" /\ last.args[5]) =>
        /\ last.out.wider => last.out.x_offset = 0
        /\ ~last.out.wider =>
              last.out.y_offset = (last.args[2] - last.out.new_height) \div 2

\* C5 as amended: with keep-width set the crop is anchored at the origin in
\* both branches: x_offset is 0 when the source is wider than the target
\* ratio and y_offset is 0 when it is taller (no vertical centring).
C5_KeepWidthAnchorsBothBranches ==
    (last.fn = "resize_image" /\ last.args[5]) =>
        /\ last.out.wider => last.out.x_offset = 0
        /\ ~last.out.wider => last.out.y_offset = 0

\* keep-width, a taller source, and at least two rows cropped away, so that
\* centring would have given a nonzero offset.
C5_Witness ==
    /\ last.fn = "resize_image"
    /\ last.args[5]
    /\ ~last.out.wider
    /\ last.args[2] - last.out.new_height >= 2

AttemptedBy(c) == { attempts[c][k].exe : k \in 1 .. Len(attempts[c]) }

SucceededAt(c, j) ==
    \E k \in 1 .. Len(attempts[c]) :
        attempts[c][k].exe = j /\ attempts[c][k].outcome = "success"

\* The candidates the loop has dealt with so far.
Processed(c) ==
    IF screenshot_taken[c] THEN 1 .. idx[c] ELSE 1 .. (idx[c] - 1)

\* What the claim says is attempted.
DueAttempt(c, i) == onPath[i] /\ \A j \in 1 .. (i - 1) : ~SucceededAt(c, j)

LoopOver(c) ==
    img_file_path[c] # 0 /\ pc[c] \in {"ts_finally", "html_remove", "done"}

\* C6: a candidate is attempted iff it is on PATH and no earlier candidate
\* succeeded; candidates are attempted in list order, each at most once; no
\* candidate is attempted after a success; every other outcome proceeds to
\* the next candidate.
C6_FallbackOrder ==
    \A c \in Calls :
        /\ \A k \in 1 .. (Len(attempts[c]) - 1) :
              /\ attempts[c][k].exe < attempts[c][k + 1].exe
              /\ attempts[c][k].outcome # "success"
        /\ \A i \in 1 .. NumExe :
              i \in AttemptedBy(c) => i \in Processed(c)
        /\ \A i \in Processed(c) :
              i \in AttemptedBy(c) <=> DueAttempt(c, i)
        /\ screenshot_taken[c] <=> (\E j \in 1 .. NumExe : SucceededAt(c, j))
        /\ LoopOver(c) =>
              \A i \in 1 .. NumExe : i \in AttemptedBy(c) <=> DueAttempt(c, i)

\* A failed attempt was followed by a successful one, and a later candidate
\* that is on PATH was left alone.
C6_Witness ==
    /\ LoopOver(1)
    /\ Len(attempts[1]) = 2
    /\ attempts[1][1].outcome \in {"timeout", "launch_error", "sigill", "nonzero"}
    /\ attempts[1][2].outcome = "success"
    /\ \E i \in 1 .. NumExe : i > attempts[1][2].exe /\ onPath[i]

EntriesFor(c, i) ==
    { k \in 1 .. Len(errors[c]) : errors[c][k].exe = _CHROMIUM_EXECUTABLES[i] }

OutcomesOf(c, i) ==
    { attempts[c][k].outcome : k \in { m \in 1 .. Len(attempts[c]) : attempts[c][m].exe = i } }

\* C7: the error list holds exactly one entry for each attempted candidate
\* that timed out (naming the executable and the timeout value), failed to
\* launch or exited nonzero other than 132; none for a candidate that exited
\* 132, none for a candidate not on PATH.
C7_ErrorListEntries ==
    \A c \in Calls : \A i \in 1 .. NumExe :
        /\ "timeout" \in OutcomesOf(c, i) =>
              /\ Cardinality(EntriesFor(c, i)) = 1
              /\ \A k \in EntriesFor(c, i) :
                    errors[c][k] = [exe    |-> _CHROMIUM_EXECUTABLES[i],
                                    what   |-> "timed out",
                                    detail |-> timeout_ms[c] \div 1000]
        /\ "launch_error" \in OutcomesOf(c, i) =>
              /\ Cardinality(EntriesFor(c, i)) = 1
              /\ \A k \in EntriesFor(c, i) : errors[c][k].what = "failed"
        /\ "nonzero" \in OutcomesOf(c, i) =>
              /\ Cardinality(EntriesFor(c, i)) = 1
              /\ \A k \in EntriesFor(c, i) :
                    /\ errors[c][k].what = "exited"
                    /\ errors[c][k].detail \notin {0, SIGILL_EXIT}
        /\ "sigill" \in OutcomesOf(c, i) => EntriesFor(c, i) = {}
        /\ ~onPath[i] => EntriesFor(c, i) = {}

\* One candidate timed out, one exited 132 and one exited with another
\* nonzero code: two entries for three attempts.
C7_Witness ==
    /\ LoopOver(1)
    /\ Len(attempts[1]) = 3
    /\ Len(errors[1]) = 2
    /\ \E i \in 1 .. NumExe : "timeout" \in OutcomesOf(1, i)
    /\ \E i \in 1 .. NumExe : "sigill" \in OutcomesOf(1, i)
    /\ \E i \in 1 .. NumExe : "nonzero" \in OutcomesOf(1, i)
    /\ \E i \in 1 .. NumExe : ~onPath[i]

\* First half of C8 alone: no call has written, read or deleted a temporary
\* file owned by the other call.
C8_NoForeignAccess == ~foreign

\* C8: in every interleaving of two calls no call writes, reads or deletes a
\* temporary file the other call owns, and each call ends having removed
\* its own temporary files.
C8_ConcurrentCallsSafe ==
    /\ ~foreign
    /\ \A n \in TempNames : owner[n] # 0 => ~Ended(owner[n])

\* C9: the angle is 0, 180, 90, 270 for (horizontal, False), (horizontal,
\* True), (vertical, False), (vertical, True); any other orientation fails
\* with an error for either value of inverted.
C9_OrientationAngles ==
    last.fn = "change_orientation" =>
        LET o == last.args[1]
            inv == last.args[2]
        IN  /\ (o = "horizontal" /\ ~inv) => (~last.out.raised /\ last.out.angle = 0)
            /\ (o = "horizontal" /\ inv) => (~last.out.raised /\ last.out.angle = 180)
            /\ (o = "vertical" /\ ~inv) => (~last.out.raised /\ last.out.angle = 90)
            /\ (o = "vertical" /\ inv) => (~last.out.raised /\ last.out.angle = 270)
            /\ o \notin {"horizontal", "vertical"} => last.out.raised

\* An unrecognised orientation, not inverted, failed.
C9_Witness ==
    /\ last.fn = "change_orientation"
    /\ last.args = << "portrait", FALSE >>
    /\ last.out.raised

\* C10: get_image attempts a decode iff the status is in [200,300) or is
\* 304; for every other status it logs an error and returns None, without
\* raising and without a decode.
C10_DecodeIffSuccessStatus ==
    (last.fn = "get_image" /\ last.args[1]) =>
        LET st == last.args[2]
            success == st \in 200 .. 299 \/ st = 304
        IN  /\ last.out.decode_attempted <=> success
            /\ ~success =>
                  /\ last.out.logged_error
                  /\ ~last.out.raised
                  /\ last.out.img = "none"
            /\ success => ~last.out.logged_error

\* A 304 response led to a decode attempt.
C10_Witness ==
    /\ last.fn = "get_image"
    /\ last.args[1]
    /\ last.args[2] = 304
    /\ last.out.decode_attempted

====
